---- MODULE Spec2Model ----
(***************************************************************************)
(* Order tagger (wondtags): a model of the three limiter-based variants of *)
(* the program, src/index.js (second script, lines 156-337),               *)
(* src/unnamed/part_000 and src/unnamed/part_001.  The first script of     *)
(* src/index.js (lines 1-154) has the same tag computation and pagination  *)
(* loops, without limiter or retries.                                      *)
(*                                                                         *)
(* The remote API and the Bottleneck limiter are not part of the sources:  *)
(* the API answers a listing page by page with previous/next links and     *)
(* reports created_at to the second, with inclusive date filters; the      *)
(* limiter starts queued jobs in order while fewer than maxConcurrent run. *)
(* Code between two awaits runs without interleaving, so each action is    *)
(* one callback of the event loop.                                         *)
(*                                                                         *)
(* Specifications: Spec (one run of a variant), SpecLive (the same with its *)
(* scheduling), SpecRerun (runs one after the other), SpecTimed (a run with *)
(* its clocks: the limiter starts its jobs minTime apart, a response takes  *)
(* time, a retry timer runs its delay), SpecTags, SpecPage and SpecRetry    *)
(* (the tag computation, a pagination loop, a retried request, each alone). *)
(*                                                                         *)
(* Strings are sequences of atoms.  An atom is one character ("1", "v",    *)
(* ",", " ") or one of the two literal words the code compares against     *)
(* ("new-customer", "returning-customer"), standing for exactly those      *)
(* characters in a row.                                                    *)
(***************************************************************************)
EXTENDS Integers, Sequences, FiniteSets, TLC

VARIABLES
  calc,      \* the tag computation taken alone
  orders,    \* the shop's orders: order id -> [customer, created_at]
  srvTags,   \* the shop's orders: order id -> tags string
  pageCap,   \* the number of records the remote API puts on one page
  window,    \* the run's date window: [fromDate, toDate], calendar days
  pg,        \* one pagination loop taken alone
  rt,        \* one retried request taken alone
  variant,   \* which script runs: "index", "part_000" or "part_001"
  run,       \* the run started by POST /run: its state, what is left of the
             \* remote API's failures, how the runs before it ended
  main,      \* the driver: customers, c (customer index), list (the fetched
             \* orders), i (index of the first order of the current batch)
  act,       \* per actor (0: the driver, o: the processing of order o): the
             \* operation in progress, its pagination loop, its request, its
             \* limiter job
  tasks,     \* per order: how far its processing is, tags, previousCount
  limiter,   \* the Bottleneck limiter: queued jobs, number of running jobs
  time       \* the clocks of a run whose timing is followed: time since the
             \* last request left, the limiter's minTime, the retry timers

vars == <<calc, orders, srvTags, pageCap, window, pg, rt,
          variant, run, main, act, tasks, limiter, time>>
runVars == <<variant, run, main, act, tasks, limiter>>

\* ---------------------------------------------------------------- bounds
\* Longest raw tag string (in atoms) given to the tag computation.
MaxLen == 4
\* Largest small prior order count given to the tag computation.
MaxPrior == 2

\* Orders in the shop.
NumOrders == 3
\* Customers in the shop.
NumCustomers == 2
\* Largest page size of the remote API in the model.
PageCap == 2
\* Calendar days on which orders are created: 1..MaxDay.
MaxDay == 3
\* Most failures the remote API answers with before it recovers.
MaxFailures == 5
\* Most runs started one after the other.
MaxRuns == 2
\* Most failures of the remote API in a run whose timing is followed.
TimedFailures == 1

\* ------------------------------------------------------------- strings
NewCustomer == "new-customer"
ReturningCustomer == "returning-customer"
COMMA == ","
SPACE == " "
DigitChars == <<"0", "1", "2", "3", "4", "5", "6", "7", "8", "9">>
DigitSet == {DigitChars[i] : i \in 1..10}
\* The atoms raw tag strings are drawn from.
InputChars == {"1", "2", "v", COMMA, SPACE, NewCustomer, ReturningCustomer}

\* All sequences over S of length at most n.
SeqsUpTo(S, n) == UNION {[1..k -> S] : k \in 0..n}

\* /^\d+$/.test(t)
IsNumeric(t) == Len(t) > 0 /\ \A i \in 1..Len(t) : t[i] \in DigitSet

\* `${totalCount}` : the decimal digits of a positive integer.
RECURSIVE NumberToString(_)
NumberToString(n) ==
  IF n < 10 THEN <<DigitChars[n + 1]>>
  ELSE NumberToString(n \div 10) \o <<DigitChars[(n % 10) + 1]>>

\* String.prototype.split(',') : the pieces between the commas (one piece,
\* the whole string, when there is no comma; the empty string gives [""]).
RECURSIVE Split(_)
Split(s) ==
  IF \A i \in 1..Len(s) : s[i] # COMMA THEN <<s>>
  ELSE LET k == CHOOSE i \in 1..Len(s) :
                  s[i] = COMMA /\ \A j \in 1..(i - 1) : s[j] # COMMA
       IN <<SubSeq(s, 1, k - 1)>> \o Split(SubSeq(s, k + 1, Len(s)))

\* String.prototype.trim() : leading and trailing white space removed.
RECURSIVE Trim(_)
Trim(t) ==
  IF t = <<>> THEN t
  ELSE IF Head(t) = SPACE THEN Trim(Tail(t))
  ELSE IF t[Len(t)] = SPACE THEN Trim(SubSeq(t, 1, Len(t) - 1))
  ELSE t

\* Array.prototype.join(', ')
RECURSIVE Join(_)
Join(tags) ==
  IF tags = <<>> THEN <<>>
  ELSE IF Len(tags) = 1 THEN tags[1]
  ELSE tags[1] \o <<COMMA, SPACE>> \o Join(Tail(tags))

\* --------------------------------------------------- tag computation
\* the split without the trim
ParseTagsNoTrim(raw) == IF raw = <<>> THEN <<>> ELSE Split(raw)

\* order.tags ? order.tags.split(',').map(t => t.trim()) : []
ParseTags(raw) ==
  IF raw = <<>> THEN <<>>
  ELSE LET parts == Split(raw) IN [i \in 1..Len(parts) |-> Trim(parts[i])]

\* the filter without its last comparison
IsKeptNoReturning(t) == ~IsNumeric(t) /\ t # <<NewCustomer>>

\* the test of tags.filter(...)
IsKept(t) == ~IsNumeric(t) /\ t # <<NewCustomer>> /\ t # <<ReturningCustomer>>

\* a filter that keeps the numeric tags
StripMarkersOnly(tags) ==
  SelectSeq(tags, LAMBDA t : t # <<NewCustomer>> /\ t # <<ReturningCustomer>>)

\* tags.filter(t => !/^\d+$/.test(t) && t !== 'new-customer' && t !== 'returning-customer')
StripClassification(tags) == SelectSeq(tags, IsKept)

\* the sequence tag taken from previousCount instead of totalCount
PushPreviousCount(tags, previousCount) ==
  IF previousCount = 0 THEN tags \o <<<<"1">>, <<NewCustomer>>>>
  ELSE tags \o <<NumberToString(previousCount), <<ReturningCustomer>>>>

\* if (previousCount === 0) tags.push('1', 'new-customer')
\* else tags.push(`${totalCount}`, 'returning-customer')
PushClassification(tags, previousCount) ==
  LET totalCount == previousCount + 1
  IN IF previousCount = 0 THEN tags \o <<<<"1">>, <<NewCustomer>>>>
     ELSE tags \o <<NumberToString(totalCount), <<ReturningCustomer>>>>

\* The strip-and-add step of one order: from the order's raw tag string and the
\* prior order count to the tag list handed to updateOrderTags.
ComputeTags(raw, previousCount) ==
  PushClassification(StripClassification(ParseTags(raw)), previousCount)

\* ------------------------------------------------------ the remote API
\* null, undefined and '' : the code only tests these for truthiness.
Null == <<>>
\* order.customer of an order without a customer
NoCustomer == 0
CustomerIds == 1..NumCustomers
OrderIds == 1..NumOrders

\* Timestamps are milliseconds since the epoch; the API reports created_at to
\* the second.
MsPerSecond == 1000
SecondsPerDay == 86400
Stamp(day, second) == (day * SecondsPerDay + second) * MsPerSecond
\* `${fromDate}T00:00:00Z`
DayStart(day) == Stamp(day, 0)
\* `${toDate}T23:59:59Z`
DayEnd(day) == Stamp(day, SecondsPerDay - 1)

\* limit=250 of every listing URL
PageLimit == 250
Min(a, b) == IF a < b THEN a ELSE b

\* The order object of a listing response.
OrderJson(id) ==
  [id |-> id, customer |-> orders[id].customer,
   created_at |-> orders[id].created_at, tags |-> srvTags[id]]

\* The ids in S as a sequence in ascending order.
RECURSIVE Ascending(_)
Ascending(S) ==
  IF S = {} THEN <<>>
  ELSE LET m == CHOOSE x \in S : \A y \in S : x <= y
       IN <<m>> \o Ascending(S \ {m})

\* The listings the program asks for.  Order ids follow creation order, so a
\* listing by ascending id is also one by ascending created_at.
\* customers.json?limit=250
CustomersQuery == [kind |-> "customers"]
\* orders.json?customer_id=..&status=any&limit=250&order=created_at asc
\*   &created_at_min=${fromDate}T00:00:00Z&created_at_max=${toDate}T23:59:59Z
OrdersForCustomerQuery(customerId, fromDate, toDate) ==
  [kind |-> "orders", customer_id |-> customerId,
   created_at_min |-> DayStart(fromDate), created_at_max |-> DayEnd(toDate)]
\* the listing of the orders with the day after toDate let in
AllOrdersQueryDayLate(fromDate, toDate) ==
  [kind |-> "orders", customer_id |-> NoCustomer,
   created_at_min |-> DayStart(fromDate), created_at_max |-> DayEnd(toDate + 1)]
\* orders.json?status=any&limit=250&order=created_at asc
\*   &created_at_min=${fromDate}T00:00:00Z&created_at_max=${toDate}T23:59:59Z
AllOrdersQuery(fromDate, toDate) ==
  [kind |-> "orders", customer_id |-> NoCustomer,
   created_at_min |-> DayStart(fromDate), created_at_max |-> DayEnd(toDate)]
\* created_at_max without the second taken off
BeforeDateInclusive(beforeDate) == beforeDate
\* new Date(new Date(beforeDate).getTime() - 1000).toISOString()
BeforeDate(beforeDate) == beforeDate - 1000
\* the count query without its customer_id filter
PreviousOrdersQueryAnyCustomer(customerId, beforeDate) ==
  [kind |-> "orders", customer_id |-> NoCustomer,
   created_at_min |-> 0, created_at_max |-> BeforeDate(beforeDate)]

\* orders.json?customer_id=..&status=any&limit=250&created_at_max=..
PreviousOrdersQuery(customerId, beforeDate) ==
  [kind |-> "orders", customer_id |-> customerId,
   created_at_min |-> 0, created_at_max |-> BeforeDate(beforeDate)]

\* The records a query selects, in server order (both date bounds inclusive).
Matching(q) ==
  IF q.kind = "customers" THEN [i \in CustomerIds |-> [id |-> i]]
  ELSE LET ids == {o \in OrderIds :
                     /\ q.customer_id # NoCustomer
                          => orders[o].customer = q.customer_id
                     /\ orders[o].created_at >= q.created_at_min
                     /\ orders[o].created_at <= q.created_at_max}
           sorted == Ascending(ids)
       IN [i \in 1..Len(sorted) |-> OrderJson(sorted[i])]

\* The response to one page request: the page's records and its Link header,
\* a list of [rel, page_info] (absent, Null, when the page has no neighbour).
\* A cursor is <<first record of the page>>.
ServerPage(q, pageInfo) ==
  LET all == Matching(q)
      size == Min(PageLimit, pageCap)
      first == IF pageInfo = Null THEN 1 ELSE pageInfo[1]
      last == Min(first + size - 1, Len(all))
      prev == IF first > 1
              THEN <<[rel |-> "previous",
                      page_info |-> <<IF first > size THEN first - size ELSE 1>>]>>
              ELSE <<>>
      next == IF last < Len(all)
              THEN <<[rel |-> "next", page_info |-> <<last + 1>>]>>
              ELSE <<>>
  IN [records |-> SubSeq(all, first, last), link |-> prev \o next]

\* ---------------------------------------------------------- pagination
\* getNextPageInfo: the page_info of the link whose relation is "next"
GetNextPageInfo(linkHeader) ==
  IF linkHeader = Null THEN Null
  ELSE IF \E i \in DOMAIN linkHeader : linkHeader[i].rel = "next"
  THEN LET i == CHOOSE j \in DOMAIN linkHeader :
                  /\ linkHeader[j].rel = "next"
                  /\ \A k \in 1..(j - 1) : linkHeader[k].rel # "next"
       IN linkHeader[i].page_info
  ELSE Null

\* The state of one do..while pagination loop: the query, pageInfo, the
\* records concatenated so far (customers, orders), the running count, and the
\* page_info sent with each request so far.
NewListing(q) ==
  [query |-> q, pageInfo |-> Null, list |-> <<>>, count |-> 0, sent |-> <<>>]

\* the request of one iteration
ListingRequest(l) == [l EXCEPT !.sent = Append(@, l.pageInfo)]

\* an iteration that assigns the page instead of concatenating it
ListingResponseAssign(l, res) ==
  [l EXCEPT !.list = res.records,
            !.count = Len(res.records),
            !.pageInfo = GetNextPageInfo(res.link)]

\* the body of one iteration after its response res
ListingResponse(l, res) ==
  [l EXCEPT !.list = @ \o res.records,
            !.count = @ + Len(res.records),
            !.pageInfo = GetNextPageInfo(res.link)]

\* while (pageInfo)
ListingContinues(l) == l.pageInfo # Null

\* ------------------------------------------------------------ retries
\* while (attempts < 5) of limitedGet and limitedPut
MaxAttempts == 5
\* setTimeout(r, 500 * attempts) of limitedGet and limitedPut
AttemptDelay == 500
\* retries = 3 of retryRequest
DefaultRetries == 3
\* delay = 500 of retryRequest
DefaultDelay == 500

\* How a request is made: "direct" (api.get, api.put called as is),
\* "retryRequest" (retryRequest(() => api.get(url))), "limitedGet" and
\* "limitedPut" (the retry loop inside the limiter's job).
Policies == {"direct", "retryRequest", "limitedGet", "limitedPut"}

\* One request with its retries.  The first attempt leaves when the request is
\* made.  phase: "inflight" (an attempt awaits its response), "backoff" (the
\* setTimeout between two attempts runs), "ok" (returned the response),
\* "error" (threw).  attempts, retries, delay are the code's variables; wait is
\* the running timer; made counts the attempts, waited lists the timers.
NewCall(policy) ==
  [policy |-> policy, phase |-> "inflight", attempts |-> 0,
   retries |-> DefaultRetries, delay |-> DefaultDelay,
   wait |-> 0, made |-> 1, waited |-> <<>>]

NoCall == [NewCall("direct") EXCEPT !.phase = "none", !.made = 0]

\* return await fn()  /  return await api.get(url)
CallSucceed(c) == [c EXCEPT !.phase = "ok"]

\* a retryRequest that gives up one retry early
CallFailEarly(c) ==
  CASE c.policy = "direct" -> [c EXCEPT !.phase = "error"]
    [] c.policy = "retryRequest" ->
         IF c.retries <= 1 THEN [c EXCEPT !.phase = "error"]
         ELSE [c EXCEPT !.phase = "backoff", !.wait = c.delay,
                        !.waited = Append(@, c.delay)]
    [] OTHER ->
         [c EXCEPT !.phase = "backoff", !.attempts = @ + 1,
                   !.wait = AttemptDelay * (c.attempts + 1),
                   !.waited = Append(@, AttemptDelay * (c.attempts + 1))]

\* the catch block of an attempt
CallFail(c) ==
  CASE c.policy = "direct" -> [c EXCEPT !.phase = "error"]
    [] c.policy = "retryRequest" ->
         \* if (retries === 0) throw error; await setTimeout(delay)
         IF c.retries = 0 THEN [c EXCEPT !.phase = "error"]
         ELSE [c EXCEPT !.phase = "backoff", !.wait = c.delay,
                        !.waited = Append(@, c.delay)]
    [] OTHER ->
         \* attempts++; await setTimeout(500 * attempts)
         [c EXCEPT !.phase = "backoff", !.attempts = @ + 1,
                   !.wait = AttemptDelay * (c.attempts + 1),
                   !.waited = Append(@, AttemptDelay * (c.attempts + 1))]

\* a retry loop that stops after the second failure
CallWakeShort(c) ==
  IF c.policy = "retryRequest"
  THEN [c EXCEPT !.phase = "inflight", !.retries = @ - 1, !.delay = @ * 2,
                 !.wait = 0, !.made = @ + 1]
  ELSE IF c.attempts < 2
  THEN [c EXCEPT !.phase = "inflight", !.wait = 0, !.made = @ + 1]
  ELSE [c EXCEPT !.phase = "error", !.wait = 0]

\* a retryRequest that retries with the same delay
CallWakeSameDelay(c) ==
  IF c.policy = "retryRequest"
  THEN [c EXCEPT !.phase = "inflight", !.retries = @ - 1, !.wait = 0, !.made = @ + 1]
  ELSE IF c.attempts < MaxAttempts
  THEN [c EXCEPT !.phase = "inflight", !.wait = 0, !.made = @ + 1]
  ELSE [c EXCEPT !.phase = "error", !.wait = 0]

\* the timer has fired
CallWake(c) ==
  IF c.policy = "retryRequest"
  \* return retryRequest(fn, retries - 1, delay * 2)
  THEN [c EXCEPT !.phase = "inflight", !.retries = @ - 1, !.delay = @ * 2,
                 !.wait = 0, !.made = @ + 1]
  \* while (attempts < 5) ... throw new Error('... failed after retries')
  ELSE IF c.attempts < MaxAttempts
  THEN [c EXCEPT !.phase = "inflight", !.wait = 0, !.made = @ + 1]
  ELSE [c EXCEPT !.phase = "error", !.wait = 0]

\* ------------------------------------------------------- the shop data
Days == 1..MaxDay
\* Creation times: the first and the last second of each day.
Times == {Stamp(d, sec) : d \in Days, sec \in {0, SecondsPerDay - 1}}

\* Tags the orders carry before the run, by order id: none, a merchant's tag,
\* stale classification tags around a merchant's tag, a stale marker alone.
TagSamples ==
  << <<>>,
     <<"v">>,
     <<"2", COMMA, SPACE, "v", COMMA, SPACE, NewCustomer>>,
     <<ReturningCustomer>> >>
InitialTags == [o \in OrderIds |-> TagSamples[((o - 1) % Len(TagSamples)) + 1]]

\* Order ids follow creation order; customer c+1 has an order only after
\* customer c has one (the customers are interchangeable).
ShopsOver(times) ==
  {f \in [OrderIds -> [customer : {NoCustomer} \cup CustomerIds, created_at : times]] :
     /\ \A i, j \in OrderIds : i < j => f[i].created_at <= f[j].created_at
     /\ \A i \in OrderIds : f[i].customer > 1 =>
           \E j \in 1..(i - 1) : f[j].customer = f[i].customer - 1}

\* Windows of one day or two.
Windows ==
  {w \in [fromDate : Days, toDate : Days] :
     w.fromDate <= w.toDate /\ w.toDate <= w.fromDate + 1}

CalcIdle == [pc |-> "idle", raw |-> <<>>, n |-> 0, out |-> <<>>, again |-> <<>>]
PgIdle == [pc |-> "idle", l |-> NewListing(CustomersQuery)]
RtIdle == [call |-> NoCall, always |-> FALSE, k |-> 0, failed |-> 0]

\* -------------------------------------------------------------- the run
Variants == {"index", "part_000", "part_001"}
\* The driver, among the actors; the other actors are the order ids.
Main == 0
Actors == {Main} \cup OrderIds

\* a limiter that starts no job
MaxConcurrentNone(v) == 0
\* a limiter that lets every job run at once
MaxConcurrentUnlimited(v) == NumOrders + 1
\* new Bottleneck({ maxConcurrent: .. })
MaxConcurrent(v) == IF v = "index" THEN 1 ELSE 2
\* new Bottleneck({ minTime: .. })
MinTime(v) == IF v = "index" THEN 600 ELSE 300
\* processOrdersInBatches(orders, 5)
BatchSize == 5
\* The orders processed together: a batch under Promise.all in part_001, one
\* order at a time in the for loops of index.js and part_000.
Together(v) == IF v = "part_001" THEN BatchSize ELSE 1
\* How the variant makes a request of operation op.
PolicyOf(v, op) ==
  CASE v = "index" -> IF op = "put" THEN "limitedPut" ELSE "limitedGet"
    [] v = "part_000" -> "direct"
    [] v = "part_001" -> "retryRequest"
\* index.js wraps each request (limitedGet, limitedPut) in a limiter job;
\* part_000 and part_001 wrap getPreviousOrderCount and updateOrderTags whole.
JobPerRequest(v) == v = "index"
\* part_000 and part_001 call api.get directly in getAllOrders.
Gated(v, a) == v = "index" \/ a # Main
\* updateOrderTags of index.js catches and logs the error of the PUT.
CatchesPutError(v) == v = "index"
\* a loop body without the test of the customer
ChecksCustomerNever(v) == FALSE
\* if (!customer) { ...; continue / return }
ChecksCustomer(v) == v # "index"

ActIdle ==
  [op |-> "none", l |-> NewListing(CustomersQuery), call |-> NoCall, gate |-> "none"]
\* st: "none" (not reached), "counting", "writing", and the ends "skipped"
\* (logged, no customer), "done" (tags written, logged), "putFailed" (write
\* failed, error logged by updateOrderTags), "failed" (threw to the caller).
TaskIdle == [st |-> "none", tags |-> <<>>, previousCount |-> 0]
MainIdle == [customers |-> <<>>, c |-> 0, list |-> <<>>, i |-> 0]
\* a test that takes an order still being processed for a finished one
FulfilledEarly(st) == st # "none"
Fulfilled(st) == st \in {"skipped", "done", "putFailed"}

\* The clocks, in milliseconds.  since: time since the last request left,
\* gap: time between the last two requests that left (both stop counting at
\* minTime); next: time until the limiter may start its next job; due[a]: time
\* left on the retry timer of actor a; fresh: the requests that left at this
\* very instant.
TimeIdle(v) ==
  [since |-> MinTime(v), gap |-> MinTime(v), next |-> 0,
   due |-> [a \in Actors |-> 0], fresh |-> {}]

RunIdle ==
  /\ variant = "index"
  /\ run = [state |-> "OFF", failuresLeft |-> 0, prior |-> <<>>]
  /\ main = MainIdle
  /\ act = [a \in Actors |-> ActIdle]
  /\ tasks = [o \in OrderIds |-> TaskIdle]
  /\ limiter = [queue |-> <<>>, running |-> 0]
  /\ time = TimeIdle("index")

\* The code between two awaits runs without interleaving.  The operators below
\* take and return b = [act, tasks, main, lim, state]: the part of the state
\* such a stretch of code changes.
Bundle ==
  [act |-> act, tasks |-> tasks, main |-> main, lim |-> limiter, state |-> run.state]

\* the limiter's job of actor a has returned or thrown
EndJob(b, a) ==
  IF b.act[a].gate = "running"
  THEN [b EXCEPT !.lim.running = @ - 1, !.act[a].gate = "none"]
  ELSE b

\* limiter.wrap(fn)(...) : the job is queued
Enqueue(b, a) ==
  [b EXCEPT !.lim.queue = Append(@, a), !.act[a].gate = "queued",
            !.act[a].call = NoCall]

\* api.get / api.put is called, bare or inside its retry wrapper
SendRequest(b, a) ==
  [b EXCEPT !.act[a].call = NewCall(PolicyOf(variant, b.act[a].op)),
            !.act[a].l = IF b.act[a].op = "put" THEN @ ELSE ListingRequest(@)]

\* a pagination loop (or the PUT) of actor a begins
StartOp(b, a, op, q) ==
  LET b1 == [b EXCEPT !.act[a].op = op, !.act[a].l = NewListing(q)]
  IN IF Gated(variant, a) THEN Enqueue(b1, a) ELSE SendRequest(b1, a)

\* the next iteration of a pagination loop
NextRequest(b, a) ==
  IF JobPerRequest(variant) THEN Enqueue(EndJob(b, a), a) ELSE SendRequest(b, a)

\* the operation of actor a has returned or thrown
FinishOp(b, a) == [EndJob(b, a) EXCEPT !.act[a] = ActIdle]

\* The customer whose orders are counted: customer.id of the customer loop in
\* index.js, order.customer.id elsewhere.
CustomerIdFor(b, order) ==
  IF variant = "index" THEN b.main.customers[b.main.c].id ELSE order.customer

\* the body of the loop over the orders, up to its first await
StartTask(b, order) ==
  IF ChecksCustomer(variant) /\ order.customer = NoCustomer
  THEN [b EXCEPT !.tasks[order.id].st = "skipped"]
  ELSE LET tags == StripClassification(ParseTags(order.tags))
           b1 == [b EXCEPT !.tasks[order.id] =
                    [st |-> "counting", tags |-> tags, previousCount |-> 0]]
       IN StartOp(b1, order.id, "count",
                  PreviousOrdersQuery(CustomerIdFor(b, order), order.created_at))

\* batch.map(async (order) => ...) : each body in turn, up to its first await
RECURSIVE StartTasks(_, _)
StartTasks(b, batch) ==
  IF batch = <<>> THEN b
  ELSE StartTasks(StartTask(b, Head(batch)), Tail(batch))

\* for (const customer of batch) : the next customer's orders are fetched
NextCustomer(b) ==
  IF b.main.c + 1 > Len(b.main.customers) THEN [b EXCEPT !.state = "DONE"]
  ELSE LET b1 == [b EXCEPT !.main.c = @ + 1, !.main.list = <<>>, !.main.i = 0,
                           !.state = "FETCHING_SCOPE"]
       IN StartOp(b1, Main, "ordersFor",
                  OrdersForCustomerQuery(b.main.customers[b.main.c + 1].id,
                                         window.fromDate, window.toDate))

LastOfBatch(b, i) == Min(i + Together(variant) - 1, Len(b.main.list))

\* The loop over the fetched orders from index i on: the orders processed
\* together start; a batch of skipped orders only is passed at once.
RECURSIVE StartBatchFrom(_, _)
StartBatchFrom(b, i) ==
  IF i > Len(b.main.list)
  THEN IF variant = "index" THEN NextCustomer(b) ELSE [b EXCEPT !.state = "DONE"]
  ELSE LET last == LastOfBatch(b, i)
           b1 == StartTasks([b EXCEPT !.main.i = i, !.state = "PROCESSING"],
                            SubSeq(b.main.list, i, last))
       IN IF \A k \in i..last : Fulfilled(b1.tasks[b1.main.list[k].id].st)
          THEN StartBatchFrom(b1, last + 1)
          ELSE b1

\* The processing of an order has ended without throwing: the driver goes on
\* once all the orders it awaits have.
TaskSettled(b) ==
  IF /\ b.state = "PROCESSING"
     /\ \A k \in b.main.i..LastOfBatch(b, b.main.i) :
          Fulfilled(b.tasks[b.main.list[k].id].st)
  THEN StartBatchFrom(b, LastOfBatch(b, b.main.i) + 1)
  ELSE b

\* A pagination loop has returned.
OpDone(b, a, l) ==
  LET op == b.act[a].op
      b1 == FinishOp(b, a)
  IN CASE op = "customers" ->
            NextCustomer([b1 EXCEPT !.main.customers = l.list, !.main.c = 0])
       [] op \in {"ordersFor", "allOrders"} ->
            StartBatchFrom([b1 EXCEPT !.main.list = l.list], 1)
       [] op = "count" ->
            \* previousCount is known: the tags are pushed, updateOrderTags is called
            StartOp([b1 EXCEPT !.tasks[a].previousCount = l.count,
                               !.tasks[a].tags = PushClassification(@, l.count),
                               !.tasks[a].st = "writing"],
                    a, "put", CustomersQuery)

\* a /run handler that answers success when the listing of the scope threw
OpFailedScopeIgnored(b, a) ==
  IF a = Main
  THEN [EndJob(b, a) EXCEPT !.act[a].call.phase = "error", !.state = "DONE"]
  ELSE [FinishOp(b, a) EXCEPT !.tasks[a].st = "failed",
                              !.state = IF @ \in {"PROCESSING", "FETCHING_SCOPE"}
                                        THEN "FAILED" ELSE @]

\* A request of actor a has thrown for good.  A listing of the driver that
\* threw stays on record in act[Main]: the error reaches the /run handler.
OpFailed(b, a) ==
  LET op == b.act[a].op
      b1 == FinishOp(b, a)
  IN IF a = Main
     THEN [EndJob(b, a) EXCEPT !.act[a].call.phase = "error", !.state = "FAILED"]
     ELSE IF op = "put" /\ CatchesPutError(variant)
     THEN TaskSettled([b1 EXCEPT !.tasks[a].st = "putFailed"])
     ELSE [b1 EXCEPT !.tasks[a].st = "failed",
                     !.state = IF @ \in {"PROCESSING", "FETCHING_SCOPE"}
                               THEN "FAILED" ELSE @]

Becomes(b, failuresLeft) ==
  /\ act' = b.act
  /\ tasks' = b.tasks
  /\ main' = b.main
  /\ limiter' = b.lim
  /\ run' = [run EXCEPT !.state = b.state, !.failuresLeft = failuresLeft]
  /\ UNCHANGED <<calc, orders, pageCap, window, pg, rt, variant>>

\* The window of the run and the creation times around its two ends.
RunWindow == [fromDate |-> 2, toDate |-> 2]
RunTimes ==
  {DayEnd(RunWindow.fromDate - 1), DayStart(RunWindow.fromDate),
   DayEnd(RunWindow.toDate), DayStart(RunWindow.toDate + 1)}

Init ==
  /\ calc = CalcIdle
  /\ pg = PgIdle
  /\ rt = RtIdle
  /\ orders \in ShopsOver(RunTimes)
  /\ srvTags = InitialTags
  /\ pageCap = PageCap
  /\ window = RunWindow
  /\ variant \in Variants
  /\ run = [state |-> "IDLE", failuresLeft |-> MaxFailures, prior |-> <<>>]
  /\ main = MainIdle
  /\ act = [a \in Actors |-> ActIdle]
  /\ tasks = [o \in OrderIds |-> TaskIdle]
  /\ limiter = [queue |-> <<>>, running |-> 0]
  /\ time = TimeIdle(variant)

\* POST /run with both dates: the scope enumeration begins
RunStart ==
  /\ run.state = "IDLE"
  /\ LET b == [Bundle EXCEPT !.state = "FETCHING_SCOPE"]
     IN Becomes(IF variant = "index"
                THEN StartOp(b, Main, "customers", CustomersQuery)
                ELSE StartOp(b, Main, "allOrders",
                             AllOrdersQuery(window.fromDate, window.toDate)),
                run.failuresLeft)
  /\ UNCHANGED srvTags

\* the limiter starts the job at the head of its queue
LimiterStart ==
  /\ limiter.queue # <<>>
  /\ limiter.running < MaxConcurrent(variant)
  /\ LET a == Head(limiter.queue)
         b == [Bundle EXCEPT !.lim.queue = Tail(@), !.lim.running = @ + 1,
                             !.act[a].gate = "running"]
     IN Becomes(SendRequest(b, a), run.failuresLeft)
  /\ UNCHANGED srvTags

\* the response of a page request arrives
PageArrives(a) ==
  /\ act[a].call.phase = "inflight"
  /\ act[a].op # "put"
  /\ LET l == ListingResponse(act[a].l, ServerPage(act[a].l.query, act[a].l.pageInfo))
         b == [Bundle EXCEPT !.act[a].l = l, !.act[a].call = CallSucceed(@)]
     IN Becomes(IF ListingContinues(l) THEN NextRequest(b, a) ELSE OpDone(b, a, l),
                run.failuresLeft)
  /\ UNCHANGED srvTags

\* the PUT of order o is applied and answered
PutArrives(o) ==
  /\ o \in OrderIds
  /\ act[o].call.phase = "inflight"
  /\ act[o].op = "put"
  /\ srvTags' = [srvTags EXCEPT ![o] = Join(tasks[o].tags)]
  /\ Becomes(TaskSettled([FinishOp(Bundle, o) EXCEPT !.tasks[o].st = "done"]),
             run.failuresLeft)

\* a request fails
RequestFails(a) ==
  /\ act[a].call.phase = "inflight"
  /\ run.failuresLeft > 0
  /\ LET c == CallFail(act[a].call)
     IN Becomes(IF c.phase = "error" THEN OpFailed(Bundle, a)
                ELSE [Bundle EXCEPT !.act[a].call = c],
                run.failuresLeft - 1)
  /\ UNCHANGED srvTags

\* the timer between two attempts fires
TimerFires(a) ==
  /\ act[a].call.phase = "backoff"
  /\ LET c == CallWake(act[a].call)
     IN Becomes(IF c.phase = "error" THEN OpFailed(Bundle, a)
                ELSE [Bundle EXCEPT !.act[a].call = c],
                run.failuresLeft)
  /\ UNCHANGED srvTags

\* The run actions say nothing of the clocks; a run whose timing is not
\* followed leaves them alone.
Next ==
  \/ RunStart /\ UNCHANGED time
  \/ LimiterStart /\ UNCHANGED time
  \/ \E a \in Actors : PageArrives(a) /\ UNCHANGED time
  \/ \E o \in OrderIds : PutArrives(o) /\ UNCHANGED time
  \/ \E a \in Actors : RequestFails(a) /\ UNCHANGED time
  \/ \E a \in Actors : TimerFires(a) /\ UNCHANGED time

Spec == Init /\ [][Next]_vars

\* The shops whose orders are all of one customer.
OneCustomerShops ==
  {f \in ShopsOver(RunTimes) : \A o \in OrderIds : f[o].customer = 1}

\* Some action of Next is enabled (the disjunction of their guards): the run
\* can start, the limiter can start a job, a request awaits its answer, a
\* retry timer runs.
CanStep ==
  \/ run.state = "IDLE"
  \/ limiter.queue # <<>> /\ limiter.running < MaxConcurrent(variant)
  \/ \E a \in Actors : act[a].call.phase \in {"inflight", "backoff"}

\* The run with its scheduling: the event loop runs a callback that is due,
\* the remote API answers every request, with a response or an error, a timer
\* fires, the limiter starts a queued job when fewer than maxConcurrent run.
\* This is WF_vars(Next) written with CanStep for ENABLED <<Next>>_vars.
Scheduling == []<>(~CanStep) \/ []<><<Next>>_vars

LiveInit ==
  /\ calc = CalcIdle
  /\ pg = PgIdle
  /\ rt = RtIdle
  /\ orders \in OneCustomerShops
  /\ srvTags = InitialTags
  /\ pageCap = PageCap
  /\ window = RunWindow
  /\ variant \in Variants
  /\ run = [state |-> "IDLE", failuresLeft |-> MaxFailures, prior |-> <<>>]
  /\ main = MainIdle
  /\ act = [a \in Actors |-> ActIdle]
  /\ tasks = [o \in OrderIds |-> TaskIdle]
  /\ limiter = [queue |-> <<>>, running |-> 0]
  /\ time = TimeIdle(variant)

SpecLive == LiveInit /\ [][Next]_vars /\ Scheduling

\* ------------------------------------------------- one run after another
\* Nothing of the run is pending: no request in flight, no timer, no job.
Quiet ==
  \A a \in Actors :
    act[a].call.phase \notin {"inflight", "backoff"} /\ act[a].gate = "none"

\* POST /run again, with the same dates, once the run before has answered and
\* nothing of it is pending.  run.prior keeps how each earlier run ended and the
\* orders it wrote.
RunAgain ==
  /\ run.state \in {"DONE", "FAILED"}
  /\ Len(run.prior) + 1 < MaxRuns
  /\ Quiet
  /\ LET b0 == [act |-> [a \in Actors |-> ActIdle],
                tasks |-> [o \in OrderIds |-> TaskIdle],
                main |-> MainIdle, lim |-> limiter, state |-> "FETCHING_SCOPE"]
         b == IF variant = "index"
              THEN StartOp(b0, Main, "customers", CustomersQuery)
              ELSE StartOp(b0, Main, "allOrders",
                           AllOrdersQuery(window.fromDate, window.toDate))
     IN /\ act' = b.act
        /\ tasks' = b.tasks
        /\ main' = b.main
        /\ limiter' = b.lim
        /\ run' = [state |-> b.state, failuresLeft |-> run.failuresLeft,
                   prior |-> Append(run.prior,
                                    [state |-> run.state,
                                     written |-> {o \in OrderIds : tasks[o].st = "done"}])]
  /\ UNCHANGED <<calc, orders, srvTags, pageCap, window, pg, rt, variant, time>>

\* The failures that make one request of the variant throw for good.
TerminalFailures(v) ==
  CASE v = "index" -> MaxAttempts
    [] v = "part_000" -> 1
    [] v = "part_001" -> DefaultRetries + 1

\* One customer's orders; the remote API fails just often enough for one
\* request to throw.
RerunInit ==
  /\ calc = CalcIdle
  /\ pg = PgIdle
  /\ rt = RtIdle
  /\ orders \in OneCustomerShops
  /\ srvTags = InitialTags
  /\ pageCap = PageCap
  /\ window = RunWindow
  /\ variant \in Variants
  /\ run = [state |-> "IDLE", failuresLeft |-> TerminalFailures(variant),
            prior |-> <<>>]
  /\ main = MainIdle
  /\ act = [a \in Actors |-> ActIdle]
  /\ tasks = [o \in OrderIds |-> TaskIdle]
  /\ limiter = [queue |-> <<>>, running |-> 0]
  /\ time = TimeIdle(variant)

RerunNext == Next \/ RunAgain

SpecRerun == RerunInit /\ [][RerunNext]_vars

\* ---------------------------------------------------- the run, timed
RECURSIVE GCD(_, _)
GCD(a, b) == IF b = 0 THEN a ELSE GCD(b, a % b)
\* The step of the clocks: the longest time that divides minTime and the first
\* retry delay of every variant (all the delays are multiples of these).
TickMs ==
  GCD(GCD(MinTime("index"), MinTime("part_001")), GCD(AttemptDelay, DefaultDelay))
Max(a, b) == IF a > b THEN a ELSE b

\* The actors whose request leaves in this step: api.get or api.put is called.
Senders ==
  {a \in Actors :
     /\ act'[a].call.phase = "inflight"
     /\ act[a].call.phase # "inflight" \/ act'[a].l.sent # act[a].l.sent}

\* What a step of the run does to the clocks; started: the limiter starts a job.
Clocks(started) ==
  time' = [since |-> IF Senders # {} THEN 0 ELSE time.since,
           gap |-> IF Senders # {} THEN time.since ELSE time.gap,
           next |-> IF started THEN MinTime(variant) ELSE time.next,
           due |-> [a \in Actors |->
                      IF act'[a].call.phase = "backoff" /\ act[a].call.phase # "backoff"
                      THEN act'[a].call.wait ELSE time.due[a]],
           fresh |-> time.fresh \cup Senders]

\* One customer's orders, one record to a page: every count query but the
\* first two has several pages.
TimedInit ==
  /\ calc = CalcIdle
  /\ pg = PgIdle
  /\ rt = RtIdle
  /\ orders \in OneCustomerShops
  /\ srvTags = InitialTags
  /\ pageCap = 1
  /\ window = RunWindow
  /\ variant \in Variants
  /\ run = [state |-> "IDLE", failuresLeft |-> TimedFailures, prior |-> <<>>]
  /\ main = MainIdle
  /\ act = [a \in Actors |-> ActIdle]
  /\ tasks = [o \in OrderIds |-> TaskIdle]
  /\ limiter = [queue |-> <<>>, running |-> 0]
  /\ time = TimeIdle(variant)

\* time passes
Tick ==
  /\ time' = [since |-> Min(time.since + TickMs, MinTime(variant)),
              gap |-> time.gap,
              next |-> Max(time.next - TickMs, 0),
              due |-> [a \in Actors |-> Max(time.due[a] - TickMs, 0)],
              fresh |-> {}]
  /\ UNCHANGED <<calc, orders, srvTags, pageCap, window, pg, rt, runVars>>

\* The limiter starts a job minTime at the earliest after it started the one
\* before; a response takes time to arrive; a timer fires when its delay is over.
TimedNext ==
  \/ RunStart /\ Clocks(FALSE)
  \/ time.next = 0 /\ LimiterStart /\ Clocks(TRUE)
  \/ \E a \in Actors \ time.fresh : PageArrives(a) /\ Clocks(FALSE)
  \/ \E o \in OrderIds \ time.fresh : PutArrives(o) /\ Clocks(FALSE)
  \/ \E a \in Actors \ time.fresh : RequestFails(a) /\ Clocks(FALSE)
  \/ \E a \in Actors : time.due[a] = 0 /\ TimerFires(a) /\ Clocks(FALSE)
  \/ Tick

SpecTimed == TimedInit /\ [][TimedNext]_vars

\* ----------------------------------------------- the calculator alone
\* calc.pc: "input" (nothing computed), "once" (out holds the computed tags),
\* "twice" (again holds the tags computed from the joined output).
PriorCounts == (0..MaxPrior) \cup {9}

TagsInit ==
  /\ calc \in [pc : {"input"}, raw : SeqsUpTo(InputChars, MaxLen), n : PriorCounts,
               out : {<<>>}, again : {<<>>}]
  /\ orders = [o \in OrderIds |-> [customer |-> NoCustomer, created_at |-> DayStart(1)]]
  /\ srvTags = InitialTags
  /\ pageCap = PageCap
  /\ window = [fromDate |-> 1, toDate |-> 1]
  /\ pg = PgIdle
  /\ rt = RtIdle
  /\ RunIdle

TagsCompute ==
  /\ calc.pc = "input"
  /\ calc' = [calc EXCEPT !.pc = "once", !.out = ComputeTags(calc.raw, calc.n)]
  /\ UNCHANGED <<orders, srvTags, pageCap, window, pg, rt, runVars, time>>

\* The computed tags are written as tags.join(', ') and read back by the next
\* computation over the same order.
TagsRecompute ==
  /\ calc.pc = "once"
  /\ calc' = [calc EXCEPT !.pc = "twice",
                          !.again = ComputeTags(Join(calc.out), calc.n)]
  /\ UNCHANGED <<orders, srvTags, pageCap, window, pg, rt, runVars, time>>

TagsNext == TagsCompute \/ TagsRecompute

SpecTags == TagsInit /\ [][TagsNext]_vars

\* ------------------------------------------- a pagination loop alone
\* pg.pc: "request" (about to send the next page request), "await" (request
\* sent), "returned" (the loop has ended and the function returned).
\* pg.fn names the function; pg.customerId, pg.beforeDate are its arguments.
PageFunctions ==
  {[fn |-> "getAllCustomers", customerId |-> NoCustomer, beforeDate |-> 0]}
  \cup {[fn |-> "getAllOrders", customerId |-> NoCustomer, beforeDate |-> 0]}
  \cup {[fn |-> "getOrdersForCustomer", customerId |-> c, beforeDate |-> 0] :
          c \in CustomerIds}
  \cup {[fn |-> "getPreviousOrderCount", customerId |-> c, beforeDate |-> t] :
          c \in CustomerIds, t \in Times}

QueryOf(f, w) ==
  CASE f.fn = "getAllCustomers" -> CustomersQuery
    [] f.fn = "getAllOrders" -> AllOrdersQuery(w.fromDate, w.toDate)
    [] f.fn = "getOrdersForCustomer" ->
         OrdersForCustomerQuery(f.customerId, w.fromDate, w.toDate)
    [] f.fn = "getPreviousOrderCount" ->
         PreviousOrdersQuery(f.customerId, f.beforeDate)

PageInit ==
  /\ calc = CalcIdle
  /\ rt = RtIdle
  /\ RunIdle
  /\ orders \in ShopsOver(Times)
  /\ srvTags = InitialTags
  /\ pageCap \in {1, PageCap}
  /\ window \in Windows
  /\ \E f \in PageFunctions :
       \* the count is asked for the creation time of one of the customer's orders
       /\ f.fn = "getPreviousOrderCount" =>
            \E o \in OrderIds : /\ orders[o].customer = f.customerId
                                /\ orders[o].created_at = f.beforeDate
       /\ pg = [pc |-> "request", call |-> f, l |-> NewListing(QueryOf(f, window))]

\* const res = await api.get(url)   (the request leaves)
PageRequest ==
  /\ pg.pc = "request"
  /\ pg' = [pg EXCEPT !.pc = "await", !.l = ListingRequest(pg.l)]
  /\ UNCHANGED <<calc, orders, srvTags, pageCap, window, rt, runVars, time>>

\* the response arrives; the loop body ends and the loop test runs
PageResponse ==
  /\ pg.pc = "await"
  /\ LET l == ListingResponse(pg.l, ServerPage(pg.l.query, pg.l.pageInfo))
     IN pg' = [pg EXCEPT !.l = l,
                         !.pc = IF ListingContinues(l) THEN "request" ELSE "returned"]
  /\ UNCHANGED <<calc, orders, srvTags, pageCap, window, rt, runVars, time>>

PageNext == PageRequest \/ PageResponse

SpecPage == PageInit /\ [][PageNext]_vars

\* ---------------------------------------------- a retried request alone
\* The underlying call fails rt.k times and then succeeds, or fails always
\* (rt.always); rt.failed counts its failures so far.
RetryInit ==
  /\ calc = CalcIdle
  /\ orders = [o \in OrderIds |-> [customer |-> NoCustomer, created_at |-> DayStart(1)]]
  /\ srvTags = InitialTags
  /\ pageCap = PageCap
  /\ window = [fromDate |-> 1, toDate |-> 1]
  /\ pg = PgIdle
  /\ rt \in [call : {NoCall}, always : BOOLEAN, k : 0..MaxFailures, failed : {0}]
  /\ rt.always => rt.k = 0
  /\ RunIdle

\* retryRequest(fn) / limitedGet(url) / limitedPut(url, data) is called (in the
\* limiter's job for the last two) and makes its first attempt
RetryStart ==
  /\ rt.call.phase = "none"
  /\ \E p \in Policies \ {"direct"} : rt' = [rt EXCEPT !.call = NewCall(p)]
  /\ UNCHANGED <<calc, orders, srvTags, pageCap, window, pg, runVars, time>>

RetryAttemptFails ==
  /\ rt.call.phase = "inflight"
  /\ rt.always \/ rt.failed < rt.k
  /\ rt' = [rt EXCEPT !.call = CallFail(rt.call), !.failed = @ + 1]
  /\ UNCHANGED <<calc, orders, srvTags, pageCap, window, pg, runVars, time>>

RetryAttemptSucceeds ==
  /\ rt.call.phase = "inflight"
  /\ ~rt.always /\ rt.failed >= rt.k
  /\ rt' = [rt EXCEPT !.call = CallSucceed(rt.call)]
  /\ UNCHANGED <<calc, orders, srvTags, pageCap, window, pg, runVars, time>>

RetryTimer ==
  /\ rt.call.phase = "backoff"
  /\ rt' = [rt EXCEPT !.call = CallWake(rt.call)]
  /\ UNCHANGED <<calc, orders, srvTags, pageCap, window, pg, runVars, time>>

RetryNext == RetryStart \/ RetryAttemptFails \/ RetryAttemptSucceeds \/ RetryTimer

SpecRetry == RetryInit /\ [][RetryNext]_vars

\* ------------------------------------------ claims on the calculator
\* The decimal numeral of a number below 100, written out.
Numeral(n) ==
  IF n < 10 THEN <<DigitChars[n + 1]>>
  ELSE <<DigitChars[(n \div 10) + 1], DigitChars[(n % 10) + 1]>>

\* A tag made of decimal digits only.
PurelyNumeric(t) ==
  t # <<>> /\ \A i \in DOMAIN t :
    t[i] \in {"0", "1", "2", "3", "4", "5", "6", "7", "8", "9"}

IsMarker(t) == t = <<"new-customer">> \/ t = <<"returning-customer">>

Positions(tags, Test(_)) == {i \in DOMAIN tags : Test(tags[i])}

\* C2: the tag computation is idempotent: computing the tags again from the
\* computed tags (as written with join and read back, and as the list itself),
\* with the same prior order count, yields the tags computed the first time.
C2_Idempotent ==
  /\ calc.pc = "twice" => calc.again = calc.out
  /\ calc.pc # "input" =>
       PushClassification(StripClassification(calc.out), calc.n) = calc.out

\* the second computation ran on an order that carried a stale sequence tag
\* and another tag
C2_Witness ==
  /\ calc.pc = "twice"
  /\ calc.n > 0
  /\ \E i, k \in DOMAIN ParseTags(calc.raw) :
       /\ PurelyNumeric(ParseTags(calc.raw)[i])
       /\ ParseTags(calc.raw)[k] = <<"v">>

\* C3: the computed tags hold exactly one purely numeric tag and exactly one
\* marker: "1" and new-customer when the prior order count is 0, the numeral of
\* n+1 and returning-customer when it is n > 0.
C3_OneSequenceTagOneMarker ==
  calc.pc # "input" =>
    /\ Cardinality(Positions(calc.out, PurelyNumeric)) = 1
    /\ Cardinality(Positions(calc.out, IsMarker)) = 1
    /\ \A i \in DOMAIN calc.out :
         /\ PurelyNumeric(calc.out[i]) => calc.out[i] = Numeral(calc.n + 1)
         /\ IsMarker(calc.out[i]) =>
              calc.out[i] = IF calc.n = 0 THEN <<"new-customer">>
                            ELSE <<"returning-customer">>

\* tags were computed for a returning customer's order that carried "1" and
\* new-customer
C3_Witness ==
  /\ calc.pc = "once"
  /\ calc.n = 9
  /\ \E i, j \in DOMAIN ParseTags(calc.raw) :
       ParseTags(calc.raw)[i] = <<"1">> /\ ParseTags(calc.raw)[j] = <<"new-customer">>

\* C4: the computed tags without their last two (the re-added sequence tag and
\* marker) are exactly the input tags that are neither purely numeric nor a
\* marker, in their original order.
C4_KeptPortion ==
  calc.pc # "input" =>
    /\ Len(calc.out) >= 2
    /\ SubSeq(calc.out, 1, Len(calc.out) - 2)
         = SelectSeq(ParseTags(calc.raw),
                     LAMBDA t : ~PurelyNumeric(t) /\ ~IsMarker(t))

\* tags were computed from an input with a kept tag on both sides of a stripped one
C4_Witness ==
  /\ calc.pc = "once"
  /\ Len(ParseTags(calc.raw)) = 3
  /\ Len(calc.out) = 4
  /\ IsMarker(ParseTags(calc.raw)[2])


\* ------------------------------------------- claims on the pagination
\* The orders of customer c created strictly before time t.
EarlierOrders(c, t) ==
  {o \in OrderIds : orders[o].customer = c /\ orders[o].created_at < t}

InWindow(t) == t >= DayStart(window.fromDate) /\ t <= DayEnd(window.toDate)

\* C5: getPreviousOrderCount(customer, t) returns the number of the customer's
\* orders created strictly before t, over all pages of the listing, wherever
\* they lie with respect to the date window.
C5_PreviousOrderCount ==
  (pg.pc = "returned" /\ pg.call.fn = "getPreviousOrderCount") =>
    pg.l.count = Cardinality(EarlierOrders(pg.call.customerId, pg.call.beforeDate))

\* a count over two pages, asked for an order in the window, that includes an
\* order created before the window, while another order has the asked time
C5_Witness ==
  /\ pg.pc = "returned"
  /\ pg.call.fn = "getPreviousOrderCount"
  /\ Len(pg.l.sent) = 2
  /\ pg.l.count = 2
  /\ InWindow(pg.call.beforeDate)
  /\ \E o \in EarlierOrders(pg.call.customerId, pg.call.beforeDate) :
       ~InWindow(orders[o].created_at)

\* The pages of a listing: the records cut into runs of the page size.
PageSize == IF pageCap < 250 THEN pageCap ELSE 250
NumPages(q) ==
  IF Len(Matching(q)) = 0 THEN 1
  ELSE (Len(Matching(q)) + PageSize - 1) \div PageSize

\* The cursors of the "next" relations of a response.
NextCursors(res) ==
  {res.link[i].page_info : i \in {j \in DOMAIN res.link : res.link[j].rel = "next"}}

\* C6: a pagination loop over a listing of N pages issues at most N requests,
\* the first without a cursor and each later one with the cursor of the
\* previous response's "next" relation; it returns after exactly N requests,
\* at the first response without a "next" relation, with all records of the
\* listing in server order.
C6_Pagination ==
  pg.pc \in {"request", "await", "returned"} =>
    LET sent == pg.l.sent
        q == pg.l.query
    IN /\ Len(sent) <= NumPages(q)
       /\ sent # <<>> => sent[1] = Null
       /\ \A i \in 2..Len(sent) : sent[i] \in NextCursors(ServerPage(q, sent[i - 1]))
       /\ pg.pc = "returned" =>
            /\ Len(sent) = NumPages(q)
            /\ NextCursors(ServerPage(q, sent[Len(sent)])) = {}
            /\ pg.l.list = Matching(q)

\* getAllOrders returned three records fetched in three requests
C6_Witness ==
  /\ pg.pc = "returned"
  /\ pg.call.fn = "getAllOrders"
  /\ Len(pg.l.sent) = 3
  /\ Len(pg.l.list) = 3
  /\ pg.l.list[1].id < pg.l.list[2].id /\ pg.l.list[2].id < pg.l.list[3].id

\* ---------------------------------------------- claims on the retries
\* C7 as claimed: a request whose call always fails throws after exactly R
\* attempts, R = 3 for retryRequest and R = 5 for limitedGet and limitedPut.
C7_Original ==
  (rt.always /\ rt.call.phase = "error") =>
    rt.call.made = (IF rt.call.policy = "retryRequest" THEN 3 ELSE 5)

\* C7 (amended): a request whose call always fails never makes more than A
\* attempts and throws after exactly A attempts, A = 4 for retryRequest (the
\* first attempt and retries = 3 retries) and A = 5 for limitedGet and
\* limitedPut; once it has thrown nothing more happens.
C7_AttemptsBeforeFailure ==
  rt.always =>
    LET a == IF rt.call.policy = "retryRequest" THEN 4 ELSE 5
    IN /\ rt.call.made <= a
       /\ rt.call.phase = "error" => (rt.call.made = a /\ ~ENABLED RetryNext)

\* a retryRequest whose call always fails has thrown
C7_Witness ==
  rt.always /\ rt.call.phase = "error" /\ rt.call.policy = "retryRequest"

\* C8: a request whose call fails k times and then succeeds, k below the retry
\* limit (3 for retryRequest, 5 for limitedGet and limitedPut), never throws,
\* and returns after exactly k+1 attempts, after which nothing more happens.
C8_SuccessAfterFailures ==
  (~rt.always /\ rt.k < (IF rt.call.policy = "retryRequest" THEN 3 ELSE 5)) =>
    /\ rt.call.phase # "error"
    /\ rt.call.made <= rt.k + 1
    /\ rt.call.phase = "ok" => (rt.call.made = rt.k + 1 /\ ~ENABLED RetryNext)

\* a request returned at its third attempt, after two failures
C8_Witness ==
  /\ ~rt.always /\ rt.k = 2 /\ rt.failed = 2
  /\ rt.call.phase = "ok" /\ rt.call.made = 3
  /\ rt.call.policy = "limitedGet"

\* C18: the delays one request waits after its failures are strictly
\* increasing: 500 ms times the number of the failure in limitedGet and
\* limitedPut (500, 1000, 1500, ...), 500 ms doubled after each failure in
\* retryRequest (500, 1000, 2000).
C18_DelaysIncrease ==
  LET w == rt.call.waited
  IN /\ \A i \in 2..Len(w) : w[i] > w[i - 1]
     /\ \A i \in DOMAIN w :
          w[i] = IF rt.call.policy = "retryRequest" THEN 500 * (2 ^ (i - 1))
                 ELSE 500 * i

\* a retryRequest is at its fourth attempt, after waits of 500, 1000 and 2000 ms
C18_Witness ==
  /\ rt.call.policy = "retryRequest"
  /\ rt.call.phase = "inflight"
  /\ rt.call.made = 4
  /\ rt.call.waited = <<500, 1000, 2000>>

\* ------------------------------------------------- claims on the run
\* The requests in flight: sent and not yet answered.
InFlight == {a \in Actors : act[a].call.phase = "inflight"}

\* The tags order o carried before the run, as a list.
TagsBefore(o) == ParseTags(InitialTags[o])

\* The tags order o is to carry after the run.
TagsExpected(o) ==
  LET p == Cardinality(EarlierOrders(orders[o].customer, orders[o].created_at))
  IN SelectSeq(TagsBefore(o), LAMBDA t : ~PurelyNumeric(t) /\ ~IsMarker(t))
     \o <<Numeral(p + 1),
          IF p = 0 THEN <<"new-customer">> ELSE <<"returning-customer">> >>

Subjects ==
  {o \in OrderIds : InWindow(orders[o].created_at) /\ orders[o].customer # NoCustomer}

\* C1: after a run that ended successfully with every write succeeding, every
\* order in the window that has a customer carries its former tags that are no
\* classification tags, then the numeral of p+1 and one marker, p being the
\* number of the customer's orders created strictly before it: new-customer
\* when p = 0, returning-customer otherwise.
C1_TagsAfterRun ==
  (run.state = "DONE" /\ \A o \in OrderIds : tasks[o].st # "putFailed") =>
    \A o \in Subjects : srvTags[o] = Join(TagsExpected(o))

\* the run of part_001 is done; orders 1 (no tags) and 2 (tag v) of one customer
\* lie in the window and carry "1, new-customer" and "v, 2, returning-customer"
C1_Witness ==
  /\ run.state = "DONE"
  /\ variant = "part_001"
  /\ {1, 2} \subseteq Subjects
  /\ orders[1].customer = orders[2].customer
  /\ srvTags[1] = <<"1", ",", " ", "new-customer">>
  /\ srvTags[2] = <<"v", ",", " ", "2", ",", " ", "returning-customer">>

\* C9 as claimed: when the count query or the tag write of an order has failed
\* for good, the run is not FAILED: it goes on and is to end successfully.
C9_Original ==
  (\E o \in OrderIds : tasks[o].st = "failed") => run.state # "FAILED"

\* C10: the number of requests in flight never exceeds the limiter's
\* maxConcurrent: 1 in index.js, 2 in part_000 and part_001.
C10_InFlightBound ==
  Cardinality(InFlight) <= (IF variant = "index" THEN 1 ELSE 2)

\* in part_001 a tag write and a retried page of a count query are in flight
\* while a third job waits in the limiter's queue
C10_Witness ==
  /\ variant = "part_001"
  /\ limiter.queue # <<>>
  /\ \E a, b \in InFlight :
       /\ act[a].op = "put"
       /\ act[b].op = "count" /\ act[b].call.made > 1

\* C12 as claimed: every request in flight was sent from inside a running job
\* of the limiter.
C12_Original ==
  \A a \in InFlight : act[a].gate = "running"

\* The processing of order o has sent a request.
Started(o) ==
  /\ tasks[o].st \notin {"none", "skipped"}
  /\ tasks[o].st = "counting" => act[o].l.sent # <<>>

\* The processing of order o is over: its tag write has returned or thrown.
Ended(o) == tasks[o].st \in {"done", "putFailed", "failed"}

\* C13 as claimed: of two orders of one customer, the processing of the one
\* created later sends no request before the processing of the one created
\* earlier is over.
C13_Original ==
  \A o1, o2 \in Subjects :
    (/\ orders[o1].customer = orders[o2].customer
     /\ orders[o1].created_at < orders[o2].created_at
     /\ Started(o2)) => Ended(o1)

\* A listing of the scope (customers, a customer's orders in the window, the
\* orders in the window) has thrown after its retries.
ScopeFailed == act[Main].call.phase = "error"

\* C15: once a listing of the scope has thrown, the run is FAILED (the /run
\* handler answers 500), no order is being processed, no job is queued and
\* nothing more happens: no order is processed afterwards and the answer never
\* turns into success.
C15_ScopeFailureAborts ==
  ScopeFailed =>
    /\ run.state = "FAILED"
    /\ \A o \in OrderIds :
         act[o] = ActIdle /\ tasks[o].st \in {"none", "skipped", "done", "putFailed"}
    /\ limiter.queue = <<>>
    /\ ~CanStep

\* in index.js the listing of the second customer's orders has thrown after
\* its 5 attempts, an order of the first customer having been written
C15_Witness ==
  /\ variant = "index"
  /\ ScopeFailed
  /\ act[Main].op = "ordersFor"
  /\ main.c = 2
  /\ act[Main].call.made = 5
  /\ \E o \in OrderIds : tasks[o].st = "done"

\* C16: for an order without a customer no request is ever made (no count
\* query, no tag write) and its tags stay as they were; skipping does not stop
\* the run: a run is FAILED only after a request has failed, a run that has
\* come to rest is DONE or FAILED, and a run that is DONE has written, or
\* logged the failed write of, every order in the window that has a customer.
C16_NoCustomerSkipped ==
  /\ \A o \in OrderIds :
        orders[o].customer = NoCustomer =>
          /\ act[o] = ActIdle
          /\ tasks[o].st \in {"none", "skipped"}
          /\ srvTags[o] = InitialTags[o]
  /\ run.state = "FAILED" => run.failuresLeft < MaxFailures
  /\ ~CanStep => run.state \in {"DONE", "FAILED"}
  /\ run.state = "DONE" => \A o \in Subjects : tasks[o].st \in {"done", "putFailed"}

\* a run of part_001 without any failure is done: the second order, in the
\* window and without a customer, was skipped, the orders before and after it
\* were written
C16_Witness ==
  /\ variant = "part_001"
  /\ run.state = "DONE"
  /\ run.failuresLeft = MaxFailures
  /\ orders[2].customer = NoCustomer
  /\ InWindow(orders[2].created_at)
  /\ tasks[1].st = "done" /\ tasks[2].st = "skipped" /\ tasks[3].st = "done"

\* C17: when the run is DONE nothing of it is pending and every order in the
\* window has been dealt with: an order without a customer was skipped (in
\* index.js, never listed), an order with a customer had its tags written as
\* computed or, in index.js only, had the failure of its write logged.
C17_DoneAfterAllAttempted ==
  run.state = "DONE" =>
    /\ ~CanStep
    /\ \A o \in OrderIds :
         InWindow(orders[o].created_at) =>
           IF orders[o].customer = NoCustomer
           THEN tasks[o].st = (IF variant = "index" THEN "none" ELSE "skipped")
           ELSE \/ tasks[o].st = "done" /\ srvTags[o] = Join(tasks[o].tags)
                \/ tasks[o].st = "putFailed" /\ variant = "index"

\* the run of index.js is done: the write of one order failed after its 5
\* attempts and was logged, the write of a later order succeeded
C17_Witness ==
  /\ variant = "index"
  /\ run.state = "DONE"
  /\ \E o1, o2 \in Subjects :
       o1 < o2 /\ tasks[o1].st = "putFailed" /\ tasks[o2].st = "done"

\* C19: every run comes to an end: from some point on it is DONE or FAILED for
\* good, with no request in flight, no retry timer running and no job left in
\* the limiter's queue.
C19_Terminates ==
  <>[](run.state \in {"DONE", "FAILED"} /\ ~CanStep /\ limiter.queue = <<>>)

\* a run of part_001 has come to rest as FAILED with the remote API's failures
\* used up: an order's request threw after its retries, and another order of
\* the same batch was written nevertheless
C19_Witness ==
  /\ variant = "part_001"
  /\ run.state = "FAILED"
  /\ ~CanStep
  /\ limiter.queue = <<>>
  /\ run.failuresLeft = 0
  /\ \E o1, o2 \in Subjects : tasks[o1].st = "failed" /\ tasks[o2].st = "done"

\* C20: for an order created outside the window (before fromDate 00:00:00Z or
\* after toDate 23:59:59Z) or without a customer no tag write is ever issued
\* and its tags stay as they were before the run; no order is ever deleted.
C20_WritesOnlyInWindow ==
  /\ \A o \in OrderIds \ Subjects :
        /\ srvTags[o] = InitialTags[o]
        /\ act[o].op # "put"
        /\ tasks[o].st \notin {"writing", "done", "putFailed"}
  /\ DOMAIN orders = OrderIds /\ DOMAIN srvTags = OrderIds

\* the run of part_000 is done: the orders created in the first and in the last
\* second of the window were written, the order created one second after the
\* window, of the same customer, was not
C20_Witness ==
  /\ variant = "part_000"
  /\ run.state = "DONE"
  /\ orders[1].created_at = DayStart(window.fromDate)
  /\ orders[2].created_at = DayEnd(window.toDate)
  /\ orders[3].created_at = DayEnd(window.toDate) + 1000
  /\ orders[3].customer = orders[2].customer /\ orders[3].customer # NoCustomer
  /\ srvTags[1] # InitialTags[1] /\ srvTags[2] # InitialTags[2]
  /\ srvTags[3] = InitialTags[3]

\* The run that is DONE made every write it attempted.
Complete == run.state = "DONE" /\ \A o \in OrderIds : tasks[o].st # "putFailed"

\* C14: the writes of a run that stopped with a fatal error stay applied, and
\* an order never carries anything but its original tags or the tags one
\* uninterrupted run gives it; after a complete run, be it the first run, a run
\* that follows an interrupted run or one that follows a complete run, every
\* order in the window that has a customer carries the tags of one
\* uninterrupted run from the original state, and every other order its
\* original tags.
C14_RerunIdempotent ==
  /\ \A i \in DOMAIN run.prior : \A o \in run.prior[i].written :
        srvTags[o] = Join(TagsExpected(o))
  /\ \A o \in OrderIds : srvTags[o] \in {InitialTags[o], Join(TagsExpected(o))}
  /\ Complete =>
        \A o \in OrderIds :
          srvTags[o] = IF o \in Subjects THEN Join(TagsExpected(o)) ELSE InitialTags[o]

\* a complete run has followed a run that failed after it had written one order
\* and before it wrote another
C14_Witness ==
  /\ Complete
  /\ Len(run.prior) = 1
  /\ run.prior[1].state = "FAILED"
  /\ run.prior[1].written # {}
  /\ Subjects \ run.prior[1].written # {}

\* The orders of customer c, and the tags order o carries, as a set.
OrdersOf(c) == {o \in OrderIds : orders[o].customer = c}
TagSet(o) == {ParseTags(srvTags[o])[i] : i \in DOMAIN ParseTags(srvTags[o])}
SequenceTags(o) == {t \in TagSet(o) : PurelyNumeric(t)}

\* C21 as claimed: after a complete run whose window holds all the orders of a
\* customer (creation times non-decreasing, equal times allowed), no two of the
\* customer's orders carry the same sequence tag, the sequence tags are the
\* numerals of 1..n, and exactly one of the orders carries new-customer.
C21_Original ==
  Complete =>
    \A c \in CustomerIds :
      (OrdersOf(c) # {} /\ \A o \in OrdersOf(c) : InWindow(orders[o].created_at)) =>
        /\ \A o1, o2 \in OrdersOf(c) :
             o1 # o2 => SequenceTags(o1) \cap SequenceTags(o2) = {}
        /\ UNION {SequenceTags(o) : o \in OrdersOf(c)}
             = {Numeral(k) : k \in 1..Cardinality(OrdersOf(c))}
        /\ Cardinality({o \in OrdersOf(c) : <<"new-customer">> \in TagSet(o)}) = 1

\* ------------------------------------------------- claims on the timing
\* C11 as claimed: any two consecutive requests of a run leave at least minTime
\* apart: 600 ms in index.js, 300 ms in part_000 and part_001.
C11_Original ==
  time.gap >= (IF variant = "index" THEN 600 ELSE 300)

====
